---- MODULE Spec2Model ----
(***************************************************************************)
(* A model of castle (src/main.rs): the lazily loaded FileNode tree, the   *)
(* weighted column packing layout, the navigation stacks driven by the     *)
(* key handlers of main's loop, and the one-shot status task whose map is  *)
(* polled with try_recv and merged by update_tree_status.                  *)
(*                                                                         *)
(* Paths are sequences of name components (naturals); RootPath is the      *)
(* path given on the command line.  The filesystem is the environment: fs  *)
(* maps every path of FsPaths to what fs::metadata / fs::read_dir report   *)
(* for it.  Directory enumeration order is ascending by name.              *)
(* usize indices of the stacks are kept 0-based as in the source.          *)
(***************************************************************************)
EXTENDS Integers, Sequences, FiniteSets, TLC

VARIABLES
    fs,               \* the filesystem: path -> kind
    fs_changes,       \* number of filesystem changes so far
    file_tree,        \* main: file_tree
    path_stack,       \* main: path_stack
    selection_stack,  \* main: selection_stack
    pc,               \* position of main: "start", "poll", "draw", "read", "done"
    exit,             \* how main ended: "running", "quit", "select", "error", "panic"
    raw,              \* the terminal is in raw / alternate-screen mode
    repo,             \* what Repository::discover finds for the root path
    bg,               \* position of the spawned status task
    chan,             \* the unbounded channel: maps sent and not yet received
    last_key,         \* the key handled by the current iteration of the loop
    size,             \* the terminal: the area that Layout::split gives chunks[0]
    sends,            \* history: number of maps the status task has sent
    merges,           \* history: number of calls of update_tree_status by main
    received          \* history: <<status_map>> the poll of this iteration
                      \* has received, until its frame; <<>> if it got none

vars == <<fs, fs_changes, file_tree, path_stack, selection_stack, pc, exit,
          raw, repo, bg, chan, last_key, size, sends, merges, received>>

(***************************************************************************)
(* Bounds                                                                  *)
(***************************************************************************)
MaxName == 3          \* names of directory entries are 1..MaxName
MaxFsChanges == 1     \* filesystem changes during one session
MaxWidth == 4         \* width of the tree area of the ordinary terminal of Spec
MaxHeight == 6        \* height of the tree area of the ordinary terminal of Spec

U16 == 65536
PreloadDepth == 3
MaxLayoutDepth == 2
MaxDrawDepth == 3
MinDirWeight == 3

Max(a, b) == IF a >= b THEN a ELSE b
SatSub(a, b) == IF a >= b THEN a - b ELSE 0
Wrap16(v) == v % U16
Last(s) == s[Len(s)]

(***************************************************************************)
(* The filesystem                                                          *)
(*   "dir"   a directory that can be enumerated                            *)
(*   "xdir"  a directory whose read_dir fails                              *)
(*   "file"  a regular file                                                *)
(*   "bad"   an entry that read_dir lists but whose fs::metadata fails     *)
(*           (a dangling symlink)                                          *)
(*   "none"  no such entry                                                 *)
(***************************************************************************)
RootPath == <<9>>
R(p) == RootPath \o p

FsPaths == { R(<<>>), R(<<1>>), R(<<2>>), R(<<3>>),
             R(<<2, 1>>), R(<<2, 2>>),
             R(<<2, 1, 1>>),
             R(<<2, 1, 1, 1>>),
             R(<<2, 1, 1, 1, 1>>) }

BaseFs == [p \in FsPaths |->
            IF p \in {R(<<1>>), R(<<3>>), R(<<2, 2>>), R(<<2, 1, 1, 1, 1>>)}
            THEN "file" ELSE "dir"]

Worlds == { BaseFs,
            [BaseFs EXCEPT ![R(<<3>>)] = "none"],
            [BaseFs EXCEPT ![R(<<3>>)] = "bad"],
            [BaseFs EXCEPT ![R(<<2, 2>>)] = "bad"],
            [BaseFs EXCEPT ![R(<<2, 1>>)] = "xdir"],
            [BaseFs EXCEPT ![R(<<>>)] = "file"],
            [BaseFs EXCEPT ![R(<<>>)] = "none"] }

ChangeablePaths == { R(<<2, 2>>), R(<<3>>) }

KindOf(p) == IF p \in DOMAIN fs THEN fs[p] ELSE "none"
MetadataOk(p) == KindOf(p) \in {"dir", "xdir", "file"}
MetadataIsDir(p) == KindOf(p) \in {"dir", "xdir"}
ReadDirOk(p) == KindOf(p) = "dir"

RECURSIVE EntriesFrom(_, _)
EntriesFrom(p, n) ==
    IF n > MaxName THEN <<>>
    ELSE (IF KindOf(p \o <<n>>) # "none" THEN <<p \o <<n>>>> ELSE <<>>)
         \o EntriesFrom(p, n + 1)

ReadDir(p) == EntriesFrom(p, 1)

(***************************************************************************)
(* FileNode                                                                *)
(***************************************************************************)
Rect(x, y, w, h) == [x |-> x, y |-> y, width |-> w, height |-> h]

FileNode_new(path, is_dir) ==
    [name |-> Last(path), path |-> path, is_dir |-> is_dir,
     rect |-> Rect(0, 0, 0, 0), color |-> "White",
     children |-> <<>>, loaded |-> ~is_dir]

build_file_tree(path) == FileNode_new(path, MetadataIsDir(path))

\* The result of load_children: the node afterwards and whether it returned Ok.
load_children(node) ==
    IF ~node.is_dir \/ node.loaded
    THEN [node |-> node, ok |-> TRUE]
    ELSE IF ~ReadDirOk(node.path)
    THEN [node |-> [node EXCEPT !.children = <<>>], ok |-> TRUE]
    ELSE LET entries == ReadDir(node.path)
         IN IF \E i \in 1..Len(entries) : ~MetadataOk(entries[i])
            THEN [node |-> node, ok |-> FALSE]
            ELSE [node |-> [node EXCEPT !.children =
                      [i \in 1..Len(entries) |->
                          FileNode_new(entries[i], MetadataIsDir(entries[i]))]],
                  ok |-> TRUE]

RECURSIVE lazy_load_to_depth(_, _)
lazy_load_to_depth(node, depth) ==
    IF depth = 0 THEN node
    ELSE IF node.is_dir
    THEN LET n1 == load_children(node).node
         IN [n1 EXCEPT !.children =
                [i \in 1..Len(n1.children) |->
                    lazy_load_to_depth(n1.children[i], depth - 1)]]
    ELSE node

(***************************************************************************)
(* f32 arithmetic of the compression branch (area.height as f32 /          *)
(* total_base as f32, then base as f32 * scale).  A float is [m, e] with   *)
(* value m / 2^e, m = 0 or 2^23 <= m <= 2^24 (24 significant bits), and    *)
(* F32Round rounds the rational n / d to nearest, ties to even.  All       *)
(* values of the model are below 2^24, so e >= 0 and integers convert      *)
(* exactly.                                                                *)
(***************************************************************************)
F32Lo == 8388608     \* 2^23
F32Hi == 16777216    \* 2^24

RECURSIVE F32Norm(_, _, _)
F32Norm(n, d, e) ==
    IF n = 0 THEN [m |-> 0, e |-> 0]
    ELSE IF n \div d < F32Lo
    THEN (IF d % 2 = 0 THEN F32Norm(n, d \div 2, e + 1)
                       ELSE F32Norm(2 * n, d, e + 1))
    ELSE IF n \div d >= F32Hi
    THEN F32Norm(n, 2 * d, e - 1)
    ELSE LET q == n \div d
             r == n % d
             up == (2 * r > d) \/ (2 * r = d /\ q % 2 = 1)
         IN [m |-> IF up THEN q + 1 ELSE q, e |-> e]

F32Round(n, d) == F32Norm(n, d, 0)
F32Div(a, b) == F32Round(a, b)
F32Mul(a, f) == F32Round(a * f.m, 2 ^ f.e)
F32Max1(f) == IF f.m < 2 ^ f.e THEN [m |-> F32Lo, e |-> 23] ELSE f
F32Floor(f) == f.m \div (2 ^ f.e)

\* ((base as f32) * scale).max(1.0).floor() as u16, scale = height / total_base
scaled_height(base, height, total_base) ==
    F32Floor(F32Max1(F32Mul(base, F32Div(height, total_base))))

(***************************************************************************)
(* Layout                                                                  *)
(***************************************************************************)
inner_rect(rect) ==
    Rect(Wrap16(rect.x + 1), Wrap16(rect.y + 1),
         SatSub(rect.width, 2), SatSub(rect.height, 2))

base_weight(node) ==
    IF node.is_dir
    THEN Max(MinDirWeight, Wrap16(1 + Wrap16(Len(node.children))))
    ELSE 1

\* The first loop of layout_nodes: greedy assignment of the children (by
\* index i, 1-based here) to columns.
RECURSIVE pack_columns(_, _, _, _, _, _)
pack_columns(nodes, height, i, columns, current_col, current_sum) ==
    IF i > Len(nodes)
    THEN (IF current_col # <<>> THEN Append(columns, current_col) ELSE columns)
    ELSE LET base == base_weight(nodes[i])
         IN IF current_col # <<>> /\ Wrap16(current_sum + base) > height
            THEN pack_columns(nodes, height, i + 1,
                              Append(columns, current_col), <<i>>, base)
            ELSE pack_columns(nodes, height, i + 1, columns,
                              Append(current_col, i), Wrap16(current_sum + base))

RECURSIVE SumBase(_, _)
SumBase(nodes, col) ==
    IF col = <<>> THEN 0
    ELSE Wrap16(base_weight(nodes[Head(col)]) + SumBase(nodes, Tail(col)))

\* member_height without the clip at the bottom edge of the area.
member_height_unclipped(base, y, area, total_base, members) ==
    IF total_base <= area.height
    THEN LET extra_space == area.height - total_base
             extra_per_item == IF members # 0 THEN extra_space \div members ELSE 0
         IN Wrap16(base + extra_per_item)
    ELSE scaled_height(base, area.height, total_base)

\* member_height that does not hand out the spare rows of the column.
member_height_no_extra(base, y, area, total_base, members) ==
    IF total_base <= area.height
    THEN base
    ELSE LET height == scaled_height(base, area.height, total_base)
         IN IF Wrap16(y + height) > Wrap16(area.y + area.height)
            THEN SatSub(Wrap16(area.y + area.height), y)
            ELSE height

\* member_height without the compression of a column that is too heavy.
member_height_uncompressed(base, y, area, total_base, members) ==
    IF total_base <= area.height
    THEN LET extra_space == area.height - total_base
             extra_per_item == IF members # 0 THEN extra_space \div members ELSE 0
         IN Wrap16(base + extra_per_item)
    ELSE base

\* The height of one member of a column whose running offset is y.
member_height(base, y, area, total_base, members) ==
    IF total_base <= area.height
    THEN LET extra_space == area.height - total_base
             extra_per_item == IF members # 0 THEN extra_space \div members ELSE 0
         IN Wrap16(base + extra_per_item)
    ELSE LET height == scaled_height(base, area.height, total_base)
         IN IF Wrap16(y + height) > Wrap16(area.y + area.height)
            THEN SatSub(Wrap16(area.y + area.height), y)
            ELSE height

\* The rectangles of the members k.. of column col, top to bottom from y.
RECURSIVE column_rects(_, _, _, _, _, _, _, _)
column_rects(nodes, col, k, y, area, x, col_width, total_base) ==
    IF k > Len(col) THEN <<>>
    ELSE LET height == member_height(base_weight(nodes[col[k]]), y, area,
                                     total_base, Len(col))
         IN <<Rect(x, y, col_width, height)>>
            \o column_rects(nodes, col, k + 1, Wrap16(y + height), area, x,
                            col_width, total_base)

\* column_x that ignores the index of the column.
column_x_first(area, col_index, col_width) == area.x

column_x(area, col_index, col_width) == Wrap16(area.x + Wrap16(col_index * col_width))

RECURSIVE layout_nodes(_, _, _)
layout_nodes(nodes, area, depth) ==
    IF nodes = <<>> THEN nodes
    ELSE LET columns == pack_columns(nodes, area.height, 1, <<>>, <<>>, 0)
             num_cols == Len(columns)
             col_width == area.width \div num_cols
             rects == [c \in 1..num_cols |->
                          column_rects(nodes, columns[c], 1, area.y, area,
                                       column_x(area, c - 1, col_width),
                                       col_width, SumBase(nodes, columns[c]))]
             ColOf(i) == CHOOSE c \in 1..num_cols :
                             \E k \in 1..Len(columns[c]) : columns[c][k] = i
             PosOf(i) == CHOOSE k \in 1..Len(columns[ColOf(i)]) :
                             columns[ColOf(i)][k] = i
         IN [i \in 1..Len(nodes) |->
               LET n1 == [nodes[i] EXCEPT !.rect = rects[ColOf(i)][PosOf(i)]]
               IN IF n1.is_dir /\ n1.children # <<>> /\ depth < MaxLayoutDepth
                  THEN [n1 EXCEPT !.children =
                           layout_nodes(@, inner_rect(n1.rect), depth + 1)]
                  ELSE n1]

\* layout_directory that starts the layout of the children at depth 1.
layout_directory_from_depth_1(node, area) ==
    [node EXCEPT !.rect = area,
                 !.children = layout_nodes(@, inner_rect(area), 1)]

layout_directory(node, area) ==
    [node EXCEPT !.rect = area,
                 !.children = layout_nodes(@, inner_rect(area), 0)]


(***************************************************************************)
(* Drawing: the nodes a frame renders, each with its rect (the paths of    *)
(* the nodes handed to render_widget).                                     *)
(***************************************************************************)
RECURSIVE draw_file_node(_, _)
draw_file_node(node, current_depth) ==
    IF current_depth >= MaxDrawDepth THEN {}
    ELSE {node.path} \cup
         (IF node.is_dir
          THEN UNION { draw_file_node(node.children[i], current_depth + 1) :
                          i \in 1..Len(node.children) }
          ELSE {})

draw_current_view(node) ==
    {node.path} \cup
    UNION { draw_file_node(node.children[i], 0) : i \in 1..Len(node.children) }


(***************************************************************************)
(* Resolve                                                                 *)
(***************************************************************************)
RECURSIVE get_current_node(_, _)
get_current_node(node, ps) ==
    IF ps = <<>> THEN node
    ELSE IF Head(ps) < Len(node.children)
    THEN get_current_node(node.children[Head(ps) + 1], Tail(ps))
    ELSE get_current_node(node, Tail(ps))

\* get_current_node_mut indexes without a check: it panics unless every
\* index of the stack is within the children it indexes.
RECURSIVE PathInBounds(_, _)
PathInBounds(node, ps) ==
    \/ ps = <<>>
    \/ /\ Head(ps) < Len(node.children)
       /\ PathInBounds(node.children[Head(ps) + 1], Tail(ps))

\* A write through the reference that get_current_node_mut returns.
RECURSIVE StoreCurrent(_, _, _)
StoreCurrent(node, ps, new) ==
    IF ps = <<>> THEN new
    ELSE [node EXCEPT !.children[Head(ps) + 1] = StoreCurrent(@, Tail(ps), new)]

(***************************************************************************)
(* Status overlay                                                          *)
(* A git2::Status is the set of its flags.  Map keys and rel_str are       *)
(* strings: the components of a relative path joined by the separator 0    *)
(* ("sub/a" is <<2, 0, 1>>; git reports an untracked directory as "sub/",  *)
(* <<2, 0>>).                                                              *)
(***************************************************************************)
Flags == {"index_new", "wt_new", "index_modified", "wt_modified",
          "index_deleted", "wt_deleted", "ignored"}

\* color_for_git_status with the test for "modified" before the test for "new".
color_for_git_status_modified_first(status) ==
    IF status.some
    THEN IF "index_modified" \in status.flags \/ "wt_modified" \in status.flags
         THEN "Yellow"
         ELSE IF "index_new" \in status.flags \/ "wt_new" \in status.flags
         THEN "Green"
         ELSE IF "index_deleted" \in status.flags \/ "wt_deleted" \in status.flags
         THEN "Red"
         ELSE "White"
    ELSE "White"

color_for_git_status(status) ==
    IF status.some
    THEN IF "index_new" \in status.flags \/ "wt_new" \in status.flags
         THEN "Green"
         ELSE IF "index_modified" \in status.flags \/ "wt_modified" \in status.flags
         THEN "Yellow"
         ELSE IF "index_deleted" \in status.flags \/ "wt_deleted" \in status.flags
         THEN "Red"
         ELSE "White"
    ELSE "White"

IsPrefix(pre, path) ==
    Len(pre) <= Len(path) /\ SubSeq(path, 1, Len(pre)) = pre

\* Path::strip_prefix
strip_prefix(path, pre) ==
    IF IsPrefix(pre, path)
    THEN [ok |-> TRUE, rel |-> SubSeq(path, Len(pre) + 1, Len(path))]
    ELSE [ok |-> FALSE, rel |-> <<>>]

\* relative_path.to_string_lossy().to_string()
RECURSIVE to_string(_)
to_string(rel) ==
    IF Len(rel) <= 1 THEN rel
    ELSE <<Head(rel), 0>> \o to_string(Tail(rel))

\* The repositories Repository::discover may find for RootPath: none, one
\* whose working directory is the root, one whose working directory is the
\* root's parent, a bare one (no working directory).
NoRepo == [found |-> FALSE, has_workdir |-> FALSE, workdir |-> <<>>]
Repos == { NoRepo,
           [found |-> TRUE, has_workdir |-> TRUE, workdir |-> RootPath],
           [found |-> TRUE, has_workdir |-> TRUE, workdir |-> <<>>],
           [found |-> TRUE, has_workdir |-> FALSE, workdir |-> <<>>] }

\* The color update_tree_status gives to one node.
status_color(node, status_map) ==
    IF repo.has_workdir
    THEN LET sp == strip_prefix(node.path, repo.workdir)
         IN IF sp.ok /\ to_string(sp.rel) \in DOMAIN status_map
            THEN color_for_git_status(
                     [some |-> TRUE, flags |-> status_map[to_string(sp.rel)]])
            ELSE node.color
    ELSE node.color

RECURSIVE update_tree_status(_, _)
update_tree_status(node, status_map) ==
    [node EXCEPT !.color = status_color(node, status_map),
                 !.children = [i \in 1..Len(node.children) |->
                                  update_tree_status(node.children[i], status_map)]]

\* The maps build_status_map may deliver.
StatusMaps ==
    { <<>>,
      (<<1>> :> {"wt_modified"}) @@ (<<2, 0, 2>> :> {"index_new", "wt_modified"})
          @@ (<<2, 0>> :> {"wt_new"}),
      (<<9, 0, 1>> :> {"wt_deleted"}) @@ (<<9, 0, 2, 0, 1>> :> {"ignored"})
          @@ (<<2, 0, 1, 0, 1>> :> {"index_deleted", "index_modified"}) }


(***************************************************************************)
(* main                                                                    *)
(***************************************************************************)
\* The value of file_tree before build_file_tree has run.
NoTree == [name |-> 0, path |-> <<>>, is_dir |-> FALSE,
           rect |-> Rect(0, 0, 0, 0), color |-> "White",
           children |-> <<>>, loaded |-> TRUE]

\* The areas of chunks[0] in the sessions of Spec: an ordinary terminal and
\* one too small for the borders.
TermAreas == { Rect(0, 0, MaxWidth, MaxHeight), Rect(0, 0, 1, 2) }

Init ==
    /\ fs \in Worlds
    /\ fs_changes = 0
    /\ file_tree = NoTree
    /\ path_stack = <<>>
    /\ selection_stack = <<>>
    /\ pc = "start"
    /\ exit = "running"
    /\ raw = FALSE
    /\ repo \in Repos
    /\ bg = "idle"
    /\ chan = <<>>
    /\ last_key = "none"
    /\ size \in TermAreas
    /\ sends = 0
    /\ merges = 0
    /\ received = <<>>

\* Leave without the TerminalGuard: the terminal is restored only by the
\* calls of lines 497-498 and 507-509.
Leave_unguarded(how) ==
    /\ pc' = "done"
    /\ exit' = how
    /\ raw' = IF how \in {"quit", "select"} THEN FALSE ELSE raw

\* main returns or unwinds: _guard is dropped, which leaves raw mode.
Leave(how) ==
    /\ pc' = "done"
    /\ exit' = how
    /\ raw' = FALSE

\* Lines 339-372 when nothing fails.
Start ==
    /\ pc = "start"
    /\ MetadataOk(RootPath)
    /\ file_tree' = lazy_load_to_depth(build_file_tree(RootPath), PreloadDepth)
    /\ path_stack' = <<>>
    /\ selection_stack' = <<0>>
    /\ raw' = TRUE
    /\ bg' = "discover"
    /\ pc' = "poll"
    /\ UNCHANGED <<fs, fs_changes, exit, repo, chan, last_key, size,
                   sends, merges, received>>

\* build_file_tree(&root_path)? returns the error of fs::metadata.
StartFailTree ==
    /\ pc = "start"
    /\ ~MetadataOk(RootPath)
    /\ Leave("error")
    /\ UNCHANGED <<fs, fs_changes, file_tree, path_stack, selection_stack,
                   repo, bg, chan, last_key, size, sends, merges, received>>

\* enable_raw_mode()?, execute!(..)? or Terminal::new(..)? returns an error.
StartFailTerminal ==
    /\ pc = "start"
    /\ MetadataOk(RootPath)
    /\ file_tree' = lazy_load_to_depth(build_file_tree(RootPath), PreloadDepth)
    /\ path_stack' = <<>>
    /\ selection_stack' = <<0>>
    /\ Leave("error")
    /\ UNCHANGED <<fs, fs_changes, repo, bg, chan, last_key, size,
                   sends, merges, received>>

\* The spawned task: Repository::discover.
BgDiscover ==
    /\ bg = "discover"
    /\ bg' = IF repo.found THEN "scan" ELSE "done"
    /\ UNCHANGED <<fs, fs_changes, file_tree, path_stack, selection_stack,
                   pc, exit, raw, repo, chan, last_key, size, sends, merges, received>>

\* The spawned task: build_status_map has finished, tx.send(map).  The send
\* fails, and is ignored, once main has dropped rx.
BgSend ==
    /\ bg = "scan"
    /\ \E map \in StatusMaps :
          chan' = IF pc = "done" THEN chan ELSE Append(chan, map)
    /\ sends' = IF pc = "done" THEN sends ELSE sends + 1
    /\ bg' = "done"
    /\ UNCHANGED <<fs, fs_changes, file_tree, path_stack, selection_stack,
                   pc, exit, raw, repo, last_key, size, merges, received>>

\* The spawned task: repo.statuses(..) fails, the task panics without a send.
BgScanFail ==
    /\ bg = "scan"
    /\ bg' = "panicked"
    /\ UNCHANGED <<fs, fs_changes, file_tree, path_stack, selection_stack,
                   pc, exit, raw, repo, chan, last_key, size, sends, merges, received>>

\* Poll with a receive that leaves the map in the channel.
Poll_keep_map ==
    /\ pc = "poll"
    /\ IF chan # <<>>
       THEN /\ chan' = chan
            /\ file_tree' = IF repo.found
                            THEN update_tree_status(file_tree, Head(chan))
                            ELSE file_tree
            /\ merges' = IF repo.found THEN merges + 1 ELSE merges
       ELSE UNCHANGED <<chan, file_tree, merges>>
    /\ pc' = "draw"
    /\ last_key' = "none"
    /\ UNCHANGED <<fs, fs_changes, path_stack, selection_stack, exit, raw,
                   repo, bg, size, sends>>
    /\ received' = IF chan # <<>> THEN <<Head(chan)>> ELSE <<>>

\* Poll with a receive that waits for the map (rx.recv() for rx.try_recv()).
Poll_blocking ==
    /\ pc = "poll"
    /\ chan # <<>>
    /\ chan' = Tail(chan)
    /\ file_tree' = IF repo.found
                    THEN update_tree_status(file_tree, Head(chan))
                    ELSE file_tree
    /\ merges' = IF repo.found THEN merges + 1 ELSE merges
    /\ pc' = "draw"
    /\ last_key' = "none"
    /\ UNCHANGED <<fs, fs_changes, path_stack, selection_stack, exit, raw,
                   repo, bg, size, sends>>
    /\ received' = <<Head(chan)>>

\* Lines 375-379: rx.try_recv() and the merge.
Poll ==
    /\ pc = "poll"
    /\ IF chan # <<>>
       THEN /\ chan' = Tail(chan)
            /\ file_tree' = IF repo.found
                            THEN update_tree_status(file_tree, Head(chan))
                            ELSE file_tree
            /\ merges' = IF repo.found THEN merges + 1 ELSE merges
       ELSE UNCHANGED <<chan, file_tree, merges>>
    /\ pc' = "draw"
    /\ last_key' = "none"
    /\ UNCHANGED <<fs, fs_changes, path_stack, selection_stack, exit, raw,
                   repo, bg, size, sends>>
    /\ received' = IF chan # <<>> THEN <<Head(chan)>> ELSE <<>>

\* The tree after the layout of lines 393-396.
LaidOut(area) ==
    StoreCurrent(file_tree, path_stack,
                 layout_directory(get_current_node(file_tree, path_stack), area))

\* Lines 381-448: one frame.
Draw ==
    /\ pc = "draw"
    /\ IF ~PathInBounds(file_tree, path_stack)
       THEN Leave("panic") /\ UNCHANGED file_tree
       ELSE /\ file_tree' = LaidOut(size)
            /\ LET current_node == get_current_node(file_tree, path_stack)
               IN IF /\ current_node.children # <<>>
                     /\ Last(selection_stack) >= Len(current_node.children)
                  THEN Leave("panic")
                  ELSE pc' = "read" /\ UNCHANGED <<exit, raw>>
    /\ UNCHANGED <<fs, fs_changes, path_stack, selection_stack, repo, bg,
                   chan, last_key, size, sends, merges>>
    /\ received' = <<>>

\* terminal.size()? fails, or terminal.draw(..)? fails before (laid = FALSE)
\* or after (laid = TRUE) the closure has run.
DrawFail ==
    /\ pc = "draw"
    /\ \E laid \in BOOLEAN :
          file_tree' = IF laid /\ PathInBounds(file_tree, path_stack)
                       THEN LaidOut(size) ELSE file_tree
    /\ Leave("error")
    /\ UNCHANGED <<fs, fs_changes, path_stack, selection_stack, repo, bg,
                   chan, last_key, size, sends, merges>>
    /\ received' = <<>>

\* event::read()? fails.
ReadFail ==
    /\ pc = "read"
    /\ Leave("error")
    /\ UNCHANGED <<fs, fs_changes, file_tree, path_stack, selection_stack,
                   repo, bg, chan, last_key, size, sends, merges, received>>

\* The end of an iteration whose key handler does not leave the loop.
Handled(key) ==
    /\ pc' = "poll"
    /\ last_key' = key
    /\ UNCHANGED <<fs, fs_changes, exit, raw, repo, bg, chan, size,
                   sends, merges, received>>

ReplaceLast(s, v) == [s EXCEPT ![Len(s)] = v]

KeyUp ==
    /\ pc = "read"
    /\ selection_stack' =
          IF selection_stack # <<>> /\ Last(selection_stack) > 0
          THEN ReplaceLast(selection_stack, Last(selection_stack) - 1)
          ELSE selection_stack
    /\ Handled("Up")
    /\ UNCHANGED <<file_tree, path_stack>>

\* KeyDown that compares with the length instead of the last index.
KeyDown_past_end ==
    /\ pc = "read"
    /\ LET current_node == get_current_node(file_tree, path_stack)
       IN selection_stack' =
             IF /\ selection_stack # <<>>
                /\ Last(selection_stack) < Len(current_node.children)
             THEN ReplaceLast(selection_stack, Last(selection_stack) + 1)
             ELSE selection_stack
    /\ Handled("Down")
    /\ UNCHANGED <<file_tree, path_stack>>

KeyDown ==
    /\ pc = "read"
    /\ LET current_node == get_current_node(file_tree, path_stack)
       IN selection_stack' =
             IF /\ selection_stack # <<>>
                /\ Last(selection_stack) < SatSub(Len(current_node.children), 1)
             THEN ReplaceLast(selection_stack, Last(selection_stack) + 1)
             ELSE selection_stack
    /\ Handled("Down")
    /\ UNCHANGED <<file_tree, path_stack>>

\* The child of lines 473-477 after the load on demand.
EnterChild(child) ==
    IF child.is_dir /\ ~child.loaded
    THEN lazy_load_to_depth(child, PreloadDepth)
    ELSE child

\* KeyRight that enters the child with the highlight at the old index.
KeyRight_keep_selection ==
    /\ pc = "read"
    /\ IF ~PathInBounds(file_tree, path_stack)
       THEN /\ Leave("panic")
            /\ UNCHANGED <<fs, fs_changes, file_tree, path_stack,
                           selection_stack, repo, bg, chan, last_key, size,
                           sends, merges, received>>
       ELSE LET current_node == get_current_node(file_tree, path_stack)
                sel == Last(selection_stack)
            IN IF current_node.children = <<>>
               THEN /\ Handled("Right")
                    /\ UNCHANGED <<file_tree, path_stack, selection_stack>>
               ELSE IF sel >= Len(current_node.children)
               THEN /\ Leave("panic")
                    /\ UNCHANGED <<fs, fs_changes, file_tree, path_stack,
                                   selection_stack, repo, bg, chan, last_key,
                                   size, sends, merges, received>>
               ELSE /\ file_tree' =
                          StoreCurrent(file_tree, path_stack,
                              [current_node EXCEPT !.children[sel + 1] =
                                  EnterChild(@)])
                    /\ path_stack' = Append(path_stack, sel)
                    /\ selection_stack' = Append(selection_stack, sel)
                    /\ Handled("Right")

KeyRight ==
    /\ pc = "read"
    /\ IF ~PathInBounds(file_tree, path_stack)
       THEN /\ Leave("panic")
            /\ UNCHANGED <<fs, fs_changes, file_tree, path_stack,
                           selection_stack, repo, bg, chan, last_key, size,
                           sends, merges, received>>
       ELSE LET current_node == get_current_node(file_tree, path_stack)
                sel == Last(selection_stack)
            IN IF current_node.children = <<>>
               THEN /\ Handled("Right")
                    /\ UNCHANGED <<file_tree, path_stack, selection_stack>>
               ELSE IF sel >= Len(current_node.children)
               THEN /\ Leave("panic")
                    /\ UNCHANGED <<fs, fs_changes, file_tree, path_stack,
                                   selection_stack, repo, bg, chan, last_key,
                                   size, sends, merges, received>>
               ELSE /\ file_tree' =
                          StoreCurrent(file_tree, path_stack,
                              [current_node EXCEPT !.children[sel + 1] =
                                  EnterChild(@)])
                    /\ path_stack' = Append(path_stack, sel)
                    /\ selection_stack' = Append(selection_stack, 0)
                    /\ Handled("Right")

\* KeyLeft that pops path_stack only.
KeyLeft_path_only ==
    /\ pc = "read"
    /\ IF path_stack # <<>>
       THEN /\ path_stack' = SubSeq(path_stack, 1, Len(path_stack) - 1)
            /\ UNCHANGED selection_stack
       ELSE UNCHANGED <<path_stack, selection_stack>>
    /\ Handled("Left")
    /\ UNCHANGED file_tree

\* KeyLeft that pops without the test of line 483.
KeyLeft_unchecked ==
    /\ pc = "read"
    /\ path_stack' = SubSeq(path_stack, 1, Len(path_stack) - 1)
    /\ selection_stack' = SubSeq(selection_stack, 1, Len(selection_stack) - 1)
    /\ Handled("Left")
    /\ UNCHANGED file_tree

KeyLeft ==
    /\ pc = "read"
    /\ IF path_stack # <<>>
       THEN /\ path_stack' = SubSeq(path_stack, 1, Len(path_stack) - 1)
            /\ selection_stack' =
                  SubSeq(selection_stack, 1, Len(selection_stack) - 1)
       ELSE UNCHANGED <<path_stack, selection_stack>>
    /\ Handled("Left")
    /\ UNCHANGED file_tree

\* Enter: the selected path is printed and main returns (also when
\* disable_raw_mode()? or execute!(..)? returns an error).
KeyEnter ==
    /\ pc = "read"
    /\ LET current_node == get_current_node(file_tree, path_stack)
       IN IF /\ current_node.children # <<>>
             /\ Last(selection_stack) >= Len(current_node.children)
          THEN Leave("panic")
          ELSE \E how \in {"select", "error"} : Leave(how)
    /\ last_key' = "Enter"
    /\ UNCHANGED <<fs, fs_changes, file_tree, path_stack, selection_stack,
                   repo, bg, chan, size, sends, merges, received>>

\* 'q': break, then lines 507-510.
KeyQuit ==
    /\ pc = "read"
    /\ \E how \in {"quit", "error"} : Leave(how)
    /\ last_key' = "q"
    /\ UNCHANGED <<fs, fs_changes, file_tree, path_stack, selection_stack,
                   repo, bg, chan, size, sends, merges, received>>

\* Any other key, and any event that is not a key.
KeyOther ==
    /\ pc = "read"
    /\ Handled("other")
    /\ UNCHANGED <<file_tree, path_stack, selection_stack>>

\* The environment: a file appears or disappears while the session runs.
FsChange ==
    /\ pc \in {"poll", "draw", "read"}
    /\ fs_changes < MaxFsChanges
    /\ \E p \in ChangeablePaths :
          /\ fs[p] \in {"file", "none"}
          /\ fs' = [fs EXCEPT ![p] = IF @ = "none" THEN "file" ELSE "none"]
    /\ fs_changes' = fs_changes + 1
    /\ UNCHANGED <<file_tree, path_stack, selection_stack, pc, exit, raw,
                   repo, bg, chan, last_key, size, sends, merges, received>>

\* The environment: the terminal is resized.
Resize ==
    /\ pc \in {"poll", "draw", "read"}
    /\ \E area \in TermAreas \ {size} : size' = area
    /\ UNCHANGED <<fs, fs_changes, file_tree, path_stack, selection_stack,
                   pc, exit, raw, repo, bg, chan, last_key, sends, merges,
                   received>>

Next ==
    \/ Start
    \/ StartFailTree
    \/ StartFailTerminal
    \/ BgDiscover
    \/ BgSend
    \/ BgScanFail
    \/ Poll
    \/ Draw
    \/ DrawFail
    \/ ReadFail
    \/ KeyUp
    \/ KeyDown
    \/ KeyRight
    \/ KeyLeft
    \/ KeyEnter
    \/ KeyQuit
    \/ KeyOther
    \/ FsChange
    \/ Resize

Spec == Init /\ [][Next]_vars


(***************************************************************************)
(* LayoutSpec: the sessions that only draw frames, over every directory    *)
(* whose entries 1..n (n <= MaxName) are each a file, an empty directory,  *)
(* a directory of two files or a directory with nested directories, and    *)
(* over every area of at most LayMaxWidth x LayMaxHeight.  Its initial     *)
(* states are the states of main after the preload of line 352.            *)
(***************************************************************************)
LayMaxWidth == 8
LayMaxHeight == 12

EntryKinds == {"f", "e", "d", "n"}

SubFs(kind) ==
    CASE kind = "f" -> (<<>> :> "file")
      [] kind = "e" -> (<<>> :> "dir")
      [] kind = "d" -> (<<>> :> "dir") @@ (<<1>> :> "file") @@ (<<2>> :> "file")
      [] kind = "n" -> (<<>> :> "dir") @@ (<<1>> :> "file") @@ (<<2>> :> "dir")
                       @@ (<<3>> :> "file") @@ (<<2, 1>> :> "file")
                       @@ (<<2, 2>> :> "dir") @@ (<<2, 2, 1>> :> "file")

Shapes == UNION { [1..n -> EntryKinds] : n \in 0..MaxName }

WorldOf(shape) ==
    [p \in {RootPath} \cup
           UNION { { R(<<i>>) \o q : q \in DOMAIN SubFs(shape[i]) } :
                   i \in 1..Len(shape) } |->
        IF p = RootPath THEN "dir"
        ELSE SubFs(shape[p[Len(RootPath) + 1]])[SubSeq(p, Len(RootPath) + 2, Len(p))]]

LayoutWorlds == { WorldOf(shape) : shape \in Shapes }

LayoutAreas == { Rect(0, 0, w, h) : w \in 0..LayMaxWidth, h \in 0..LayMaxHeight }

LayoutInit ==
    /\ fs \in LayoutWorlds
    /\ fs_changes = 0
    /\ file_tree = lazy_load_to_depth(build_file_tree(RootPath), PreloadDepth)
    /\ path_stack = <<>>
    /\ selection_stack = <<0>>
    /\ pc = "draw"
    /\ exit = "running"
    /\ raw = TRUE
    /\ repo = NoRepo
    /\ bg = "done"
    /\ chan = <<>>
    /\ last_key = "none"
    /\ size \in LayoutAreas
    /\ sends = 0
    /\ merges = 0
    /\ received = <<>>

LayoutNext ==
    \/ Draw
    \/ KeyOther
    \/ Poll

LayoutSpec == LayoutInit /\ [][LayoutNext]_vars


(***************************************************************************)
(* StatusSpec: the sessions in which the status task reports, for the      *)
(* first entry of the root, any set of flags of git2::Status, or nothing.  *)
(***************************************************************************)
\* The maps with at most the key of the root's first entry.
FlagMaps == { <<>> } \cup { (<<1>> :> flags) : flags \in SUBSET Flags }

\* BgSend for the maps of FlagMaps.
BgSendFlags ==
    /\ bg = "scan"
    /\ \E map \in FlagMaps :
          chan' = IF pc = "done" THEN chan ELSE Append(chan, map)
    /\ sends' = IF pc = "done" THEN sends ELSE sends + 1
    /\ bg' = "done"
    /\ UNCHANGED <<fs, fs_changes, file_tree, path_stack, selection_stack,
                   pc, exit, raw, repo, last_key, size, merges, received>>

\* The state after Start and BgDiscover in the base tree, with a repository
\* whose working directory is the root or the root's parent.
StatusInit ==
    /\ fs = BaseFs
    /\ fs_changes = 0
    /\ file_tree = lazy_load_to_depth(build_file_tree(RootPath), PreloadDepth)
    /\ path_stack = <<>>
    /\ selection_stack = <<0>>
    /\ pc = "poll"
    /\ exit = "running"
    /\ raw = TRUE
    /\ repo \in { r \in Repos : r.has_workdir }
    /\ bg = "scan"
    /\ chan = <<>>
    /\ last_key = "none"
    /\ size \in TermAreas
    /\ sends = 0
    /\ merges = 0
    /\ received = <<>>

StatusNext ==
    \/ BgSendFlags
    \/ Poll
    \/ Draw
    \/ KeyOther

StatusSpec == StatusInit /\ [][StatusNext]_vars


(***************************************************************************)
(* LiveSpec: the sessions in the base tree on the ordinary terminal, with  *)
(* the progress the scheduling gives main: try_recv and the frame return,  *)
(* and event::read returns because input events keep arriving.  Nothing    *)
(* is assumed of the status task, which may be slow without bound.         *)
(***************************************************************************)
LiveInit ==
    /\ Init
    /\ fs = BaseFs
    /\ size = Rect(0, 0, MaxWidth, MaxHeight)

\* event::read()? has returned: an error, or an event that is handled.
ReadAny ==
    \/ ReadFail
    \/ KeyUp
    \/ KeyDown
    \/ KeyRight
    \/ KeyLeft
    \/ KeyEnter
    \/ KeyQuit
    \/ KeyOther

\* lines 381-448 have returned.
Frame ==
    \/ DrawFail
    \/ Draw

LiveNext ==
    \/ Start
    \/ StartFailTerminal
    \/ BgDiscover
    \/ BgSend
    \/ BgScanFail
    \/ Poll
    \/ Frame
    \/ ReadAny

LiveSpec ==
    /\ LiveInit
    /\ [][LiveNext]_vars
    /\ WF_vars(Poll)
    /\ WF_vars(Frame)
    /\ WF_vars(ReadAny)


(***************************************************************************)
(* Vocabulary of the properties                                            *)
(***************************************************************************)
Viewed == get_current_node(file_tree, path_stack)

\* The stacks exist: main has passed line 351.
Built == pc \in {"poll", "draw", "read"} \/ (pc = "done" /\ file_tree # NoTree)

RECURSIVE Nodes(_)
Nodes(node) ==
    {node} \cup UNION { Nodes(node.children[i]) : i \in 1..Len(node.children) }

TreePaths(tree) == { n.path : n \in Nodes(tree) }
NodeAt(tree, p) == CHOOSE n \in Nodes(tree) : n.path = p
ChildPaths(node) == [i \in 1..Len(node.children) |-> node.children[i].path]

Min(a, b) == IF a <= b THEN a ELSE b

Interior(r) ==
    [x |-> r.x + 1, y |-> r.y + 1,
     width |-> IF r.width >= 2 THEN r.width - 2 ELSE 0,
     height |-> IF r.height >= 2 THEN r.height - 2 ELSE 0]

Inside(r, a) ==
    /\ r.x >= a.x
    /\ r.y >= a.y
    /\ r.x + r.width <= a.x + a.width
    /\ r.y + r.height <= a.y + a.height

\* The children lists that one frame lays out below node: those of node
\* itself (depth 0) and of the directories one and two levels below.
Recursed(child, depth) == child.is_dir /\ child.children # <<>> /\ depth < 2

\* Every rectangle assigned below node lies inside the area of its call.
RECURSIVE InsideArea(_, _)
InsideArea(node, depth) ==
    \A i \in 1..Len(node.children) :
        LET child == node.children[i]
        IN /\ Inside(child.rect, Interior(node.rect))
           /\ Recursed(child, depth) => InsideArea(child, depth + 1)

HasCell(r) == r.width >= 1 /\ r.height >= 1

\* Every rectangle assigned below node lies inside its parent's rectangle:
\* for every parent (always) or for the parents of at least one cell.
RECURSIVE InsideParent(_, _, _)
InsideParent(node, depth, always) ==
    \A i \in 1..Len(node.children) :
        LET child == node.children[i]
        IN /\ (always \/ HasCell(node.rect)) => Inside(child.rect, node.rect)
           /\ Recursed(child, depth) => InsideParent(child, depth + 1, always)

(* C1, as amended: after every frame, at every recursion level and for     *)
(* every area (degenerate ones included), each child's rectangle lies      *)
(* inside the area A of its layout call, the parent's rectangle shrunk by  *)
(* 1 on every side with saturating dimensions; and it lies inside the      *)
(* parent's rectangle whenever that rectangle is at least 1 wide and 1     *)
(* high.                                                                   *)
C1_InsideArea ==
    pc = "read" =>
        /\ InsideArea(Viewed, 0)
        /\ InsideParent(Viewed, 0, FALSE)

(* C1, as stated: in addition no laid-out rectangle extends beyond its     *)
(* parent's rectangle, whatever the area.                                  *)
C1_Original ==
    pc = "read" =>
        /\ InsideArea(Viewed, 0)
        /\ InsideParent(Viewed, 0, TRUE)

\* A frame has laid out three nested levels, the children of the third
\* inside the interior of a directory that got no cell.
C1_Witness ==
    /\ pc = "read"
    /\ \E a \in 1..Len(Viewed.children) :
          /\ HasCell(Viewed.children[a].rect)
          /\ \E b \in 1..Len(Viewed.children[a].children) :
                LET node == Viewed.children[a].children[b]
                IN /\ node.is_dir
                   /\ node.children # <<>>
                   /\ ~HasCell(node.rect)

OverlapW(r1, r2) ==
    Max(0, Min(r1.x + r1.width, r2.x + r2.width) - Max(r1.x, r2.x))
OverlapH(r1, r2) ==
    Max(0, Min(r1.y + r1.height, r2.y + r2.height) - Max(r1.y, r2.y))

RECURSIVE SiblingsDisjoint(_, _)
SiblingsDisjoint(node, depth) ==
    /\ \A i, j \in 1..Len(node.children) :
          i < j =>
             LET r1 == node.children[i].rect
                 r2 == node.children[j].rect
             IN /\ OverlapW(r1, r2) * OverlapH(r1, r2) = 0
                /\ \/ r1.x + r1.width <= r2.x
                   \/ r1.x = r2.x /\ r1.y + r1.height <= r2.y
                /\ (j = i + 1 /\ r1.x = r2.x /\ r1.width >= 1)
                       => r2.y = r1.y + r1.height
    /\ \A i \in 1..Len(node.children) :
          Recursed(node.children[i], depth)
              => SiblingsDisjoint(node.children[i], depth + 1)

(* C2: after every frame no two sibling rectangles assigned by one layout  *)
(* call overlap: rectangles of different columns occupy disjoint x-ranges  *)
(* and rectangles of one column occupy consecutive, disjoint y-ranges in   *)
(* the children's original order.                                          *)
C2_NoOverlap == pc = "read" => SiblingsDisjoint(Viewed, 0)

\* A frame with two columns of real width, the first holding two children
\* of real height.
C2_Witness ==
    /\ pc = "read"
    /\ Len(Viewed.children) >= 3
    /\ LET r1 == Viewed.children[1].rect
           r2 == Viewed.children[2].rect
           r3 == Viewed.children[3].rect
       IN /\ r1.x = r2.x /\ r1.height >= 1 /\ r2.height >= 1 /\ r1.width >= 1
          /\ r3.x > r1.x /\ r3.width >= 1 /\ r3.height >= 1

(* C3: once the stacks exist, after any sequence of Up, Down, Into and Out *)
(* inputs, len(SelectionStack) = len(PathStack) + 1.                       *)
C3_StackLengths == Built => Len(selection_stack) = Len(path_stack) + 1

\* Out has just been handled two levels below the root.
C3_Witness == last_key = "Left" /\ Len(path_stack) = 2

Clamp(v, n) == Max(0, Min(v, n - 1))

(* C4: MoveUp decrements and MoveDown increments the top of SelectionStack *)
(* clamped to [0, childCount-1] of the viewed node, without wraparound;    *)
(* both are no-ops when childCount is 0; neither changes PathStack, the    *)
(* lower SelectionStack entries or the tree.                               *)
C4_UpDown ==
    [][ (pc = "read" /\ last_key' \in {"Up", "Down"}) =>
          LET n == Len(Viewed.children)
              top == Last(selection_stack)
              step == IF last_key' = "Up" THEN -1 ELSE 1
          IN /\ Len(selection_stack') = Len(selection_stack)
             /\ Last(selection_stack') =
                   IF n = 0 THEN top ELSE Clamp(top + step, n)
             /\ \A k \in 1..(Len(selection_stack) - 1) :
                   selection_stack'[k] = selection_stack[k]
             /\ path_stack' = path_stack
             /\ file_tree' = file_tree ]_vars

\* Down has just been refused at the last of three children.
C4_Witness ==
    /\ pc = "poll"
    /\ last_key = "Down"
    /\ Len(Viewed.children) = 3
    /\ Last(selection_stack) = 2


\* The child that the top of SelectionStack highlights is a file.
HighlightsFile ==
    /\ Built
    /\ selection_stack # <<>>
    /\ Last(selection_stack) < Len(Viewed.children)
    /\ ~Viewed.children[Last(selection_stack) + 1].is_dir

(* C5: MoveInto when the highlighted child is a file is a no-op:           *)
(* PathStack, SelectionStack and the tree are unchanged, so the viewed     *)
(* node is never a file reached by MoveInto.                               *)
C5_IntoFileNoOp ==
    [][ (pc = "read" /\ last_key' = "Right" /\ HighlightsFile) =>
          /\ path_stack' = path_stack
          /\ selection_stack' = selection_stack
          /\ file_tree' = file_tree ]_vars

(* C6: load_children is idempotent: on every directory node of the tree    *)
(* whose children an earlier load_children has materialized, another       *)
(* load_children is a no-op that leaves the children sequence (paths,      *)
(* order, statuses, the children's own subtrees) unchanged.                *)
C6_LoadIdempotent ==
    \A n \in Nodes(file_tree) :
        (n.is_dir /\ n.children # <<>>) =>
            load_children(n).node.children = n.children

(* C7: every node satisfies: loaded = false implies children empty, and a  *)
(* file node has loaded = true and no children; so a directory is marked   *)
(* loaded once load_children has enumerated it.                            *)
C7_LoadedInvariant ==
    \A n \in Nodes(file_tree) :
        /\ ~n.loaded => n.children = <<>>
        /\ ~n.is_dir => (n.loaded /\ n.children = <<>>)

(* C8: across every transition of a session the tree only grows: no node   *)
(* present in the tree is removed, and the children sequence of a          *)
(* directory, once loaded, is never reordered or re-created, whatever      *)
(* Into/Out navigation is performed.  Stated for the transitions of the    *)
(* sessions during which the filesystem itself has not changed.            *)
C8_TreeOnlyGrows ==
    [][ (pc # "start" /\ fs_changes' = 0) =>
          /\ TreePaths(file_tree) \subseteq TreePaths(file_tree')
          /\ \A p \in TreePaths(file_tree) :
                NodeAt(file_tree, p).children # <<>> =>
                    /\ p \in TreePaths(file_tree')
                    /\ ChildPaths(NodeAt(file_tree', p))
                          = ChildPaths(NodeAt(file_tree, p)) ]_vars

(* C9: load_children is fail-soft per entry: when the metadata of one      *)
(* entry of the directory cannot be read, that entry alone is skipped,     *)
(* every other entry still becomes a child, and no error is reported.      *)
(* Stated for the root, which is loaded once, at startup, while the        *)
(* filesystem is the one it was loaded from.                               *)
C9_FailSoft ==
    (Built /\ fs_changes = 0 /\ ReadDirOk(RootPath)) =>
        /\ ChildPaths(file_tree) = SelectSeq(ReadDir(RootPath), MetadataOk)
        /\ load_children(build_file_tree(RootPath)).ok

\* The key under which the delivered map may hold the node of path p.
HasKey(p, map) ==
    /\ repo.has_workdir
    /\ IsPrefix(repo.workdir, p)
    /\ to_string(SubSeq(p, Len(repo.workdir) + 1, Len(p))) \in DOMAIN map

RECURSIVE Uncolored(_)
Uncolored(node) ==
    [node EXCEPT !.color = "White",
                 !.children = [i \in 1..Len(node.children) |->
                                  Uncolored(node.children[i])]]

\* The step merges a delivered map into the tree.
Merging == pc = "poll" /\ chan # <<>> /\ repo.found

\* The merge changes nothing but the status of the nodes the map has a key for.
MergeFrame ==
    Merging =>
        /\ \A n \in Nodes(file_tree) :
              NodeAt(file_tree', n.path).color # n.color
                  => HasKey(n.path, Head(chan))
        /\ Uncolored(file_tree') = Uncolored(file_tree)
        /\ path_stack' = path_stack
        /\ selection_stack' = selection_stack

(* C10: the status of a node (the node of a given path) is changed only by *)
(* the status merge and only for nodes whose relative path is a key of the *)
(* delivered map; the merge leaves every other status, the structure of    *)
(* the tree and both stacks unchanged; when no repository is found no      *)
(* merge happens and every node is Untouched.                              *)
C10_StatusOnlyByMerge ==
    [][ /\ \A p \in TreePaths(file_tree) \cap TreePaths(file_tree') :
              NodeAt(file_tree', p).color # NodeAt(file_tree, p).color
                  => (Merging /\ HasKey(p, Head(chan)))
        /\ MergeFrame
        /\ ~repo.found =>
              \A n \in Nodes(file_tree') : n.color = "White" ]_vars


\* ---------------------------------------------------------------------------
\* C11 (as amended).  The status task sends at most one map per session, none
\* when no repository is found and exactly one when it finishes its scan while
\* the session is running, and it has terminated once it has sent; a task that
\* has terminated stays so and sends nothing more.  Main merges at most once
\* and never more often than a map was sent; it takes a map from the channel
\* only in the poll step, which it leaves at once for the draw step, and it
\* comes back to the poll step only from the start or from the handling of an
\* input event, so that it polls once per loop iteration.
C11_SendMergeOnce ==
    [][ /\ sends' <= 1
        /\ merges' <= 1
        /\ merges' <= sends'
        /\ (~repo.found => sends' = 0)
        /\ (sends' # sends => bg = "scan" /\ bg' = "done")
        /\ (bg = "scan" /\ bg' = "done" /\ pc # "done" => sends' = 1)
        /\ (bg \in {"done", "panicked"} => bg' = bg /\ sends' = sends)
        /\ (merges' # merges \/ Len(chan') < Len(chan)
               => pc = "poll" /\ pc' = "draw")
        /\ (pc = "poll" => pc' \in {"poll", "draw"})
        /\ (pc # "poll" /\ pc' = "poll" => pc \in {"start", "read"}) ]_vars

\* C11 as stated: whenever a repository is found the task sends exactly one
\* map before it terminates.
C11_Original ==
    bg \in {"done", "panicked"} /\ repo.found => sends = 1

\* The map was sent, received in a poll and merged, and the loop goes on.
C11_Witness ==
    /\ sends = 1
    /\ merges = 1
    /\ bg = "done"
    /\ chan = <<>>
    /\ pc = "read"

\* ---------------------------------------------------------------------------
\* C12.  Classification follows the precedence Added > Modified > Deleted >
\* Untouched (the colors Green, Yellow, Red, White): whenever main has merged
\* a map, every node whose key the map holds has the color that the
\* precedence gives to the flags reported for it, whatever combination of
\* flags that is; no status at all is classified Untouched.
Precedence(flags) ==
    IF flags \cap {"index_new", "wt_new"} # {} THEN "Green"
    ELSE IF flags \cap {"index_modified", "wt_modified"} # {} THEN "Yellow"
    ELSE IF flags \cap {"index_deleted", "wt_deleted"} # {} THEN "Red"
    ELSE "White"

KeyOf(node) == to_string(SubSeq(node.path, Len(repo.workdir) + 1, Len(node.path)))

C12_Precedence ==
    /\ color_for_git_status([some |-> FALSE, flags |-> {}]) = "White"
    /\ pc = "draw" /\ received # <<>> =>
          \A node \in Nodes(file_tree) :
              /\ IsPrefix(repo.workdir, node.path)
              /\ KeyOf(node) \in DOMAIN received[1]
              => node.color = Precedence(received[1][KeyOf(node)])

\* A merge has classified an entry reported as new in the index, modified and
\* deleted in the working copy as Added, and in another session one reported
\* as modified and deleted as Modified.
C12_Witness ==
    /\ pc = "draw"
    /\ received # <<>>
    /\ repo.workdir = RootPath
    /\ <<1>> \in DOMAIN received[1]
    /\ received[1][<<1>>] \in { {"index_new", "wt_modified", "wt_deleted"},
                                {"index_modified", "wt_deleted"} }
    /\ NodeAt(file_tree, R(<<1>>)).color \in {"Green", "Yellow"}

\* ---------------------------------------------------------------------------
\* Columns as they show in the rectangles: a member of a column lies below
\* the one before it, the first member of a column lies at the top of the
\* area.
Weight(node) ==
    IF node.is_dir THEN Max(3, 1 + Len(node.children)) ELSE 1

RECURSIVE SumSeq(_)
SumSeq(s) == IF s = <<>> THEN 0 ELSE Head(s) + SumSeq(Tail(s))

ColStart(node, i) == node.children[i].rect.y = Interior(node.rect).y

ColFirst(node, i) ==
    CHOOSE j \in 1..i :
        ColStart(node, j) /\ \A k \in (j + 1)..i : ~ColStart(node, k)

ColLast(node, i) ==
    CHOOSE j \in i..Len(node.children) :
        /\ \A k \in (i + 1)..j : ~ColStart(node, k)
        /\ j < Len(node.children) => ColStart(node, j + 1)

ColWeights(node, i) ==
    [k \in 1..(ColLast(node, i) - ColFirst(node, i) + 1) |->
        Weight(node.children[ColFirst(node, i) + k - 1])]

ColHeights(node, i) ==
    [k \in 1..(ColLast(node, i) - ColFirst(node, i) + 1) |->
        node.children[ColFirst(node, i) + k - 1].rect.height]

HasSlack(node, i) == SumSeq(ColWeights(node, i)) <= Interior(node.rect).height

RECURSIVE SlackHeights(_, _)
SlackHeights(node, depth) ==
    \A i \in 1..Len(node.children) :
        LET child == node.children[i]
            H == Interior(node.rect).height
            total == SumSeq(ColWeights(node, i))
            count == Len(ColWeights(node, i))
        IN /\ ColStart(node, 1)
           /\ HasSlack(node, i) =>
                 /\ child.rect.height = Weight(child) + (H - total) \div count
                 /\ SumSeq(ColHeights(node, i)) >= H - (count - 1)
                 /\ SumSeq(ColHeights(node, i)) <= H
           /\ Recursed(child, depth) => SlackHeights(child, depth + 1)

\* C13.  After every frame, at every recursion level, in every column whose
\* total weight is at most the height H of the area, each member's height is
\* its weight (a directory: max(3, 1 + number of children), a file: 1) plus
\* floor((H - total weight) / number of members), and the heights of the
\* column sum to at least H - (number of members - 1) and at most H.
C13_SlackHeights ==
    pc = "read" => SlackHeights(Viewed, 0)

\* Weights 1, 1, 3 in one column of an area of height 10 got heights 2, 2, 4.
C13_Witness ==
    /\ pc = "read"
    /\ Interior(Viewed.rect).height = 10
    /\ Len(Viewed.children) = 3
    /\ ColLast(Viewed, 1) = 3
    /\ ColWeights(Viewed, 1) = <<1, 1, 3>>
    /\ ColHeights(Viewed, 1) = <<2, 2, 4>>

\* ---------------------------------------------------------------------------
\* The members of the columns that are heavier than the area is high: none
\* extends past the bottom edge of the area, and each is at least 1 high, in
\* every area (always) or in the areas of height at least 1.
RECURSIVE SqueezedHeights(_, _, _)
SqueezedHeights(node, depth, always) ==
    \A i \in 1..Len(node.children) :
        LET child == node.children[i]
            A == Interior(node.rect)
        IN /\ ~HasSlack(node, i) =>
                 /\ (always \/ A.height >= 1) => child.rect.height >= 1
                 /\ child.rect.y >= A.y
                 /\ child.rect.y + child.rect.height <= A.y + A.height
           /\ Recursed(child, depth) => SqueezedHeights(child, depth + 1, always)

\* C14 (as amended).  After every frame, at every recursion level, in every
\* column whose total weight exceeds the height of the area, no member's
\* rectangle extends past the bottom edge of the area, and every member has
\* height at least 1 provided the area has height at least 1 (in an area of
\* height 0 the clip at the bottom edge leaves height 0).
C14_SqueezedHeights ==
    pc = "read" => SqueezedHeights(Viewed, 0, FALSE)

\* C14 as stated: every member of such a column has height at least 1,
\* whatever the area.
C14_Original ==
    pc = "read" => SqueezedHeights(Viewed, 0, TRUE)

\* A directory of weight 3 or more alone in a column of an area of height 2
\* got height 2.
C14_Witness ==
    /\ pc = "read"
    /\ Interior(Viewed.rect).height = 2
    /\ \E i \in 1..Len(Viewed.children) :
          /\ ~HasSlack(Viewed, i)
          /\ Weight(Viewed.children[i]) >= 3
          /\ Viewed.children[i].rect.height = 2

\* ---------------------------------------------------------------------------
\* C15.  In every state in which main has terminated, by Quit, by Select or
\* by an error of startup, of drawing or of reading the input, the terminal's
\* raw and alternate-screen mode has been released.
C15_Released ==
    pc = "done" => ~raw /\ exit # "running"

\* The session had taken the terminal and ended by an error of a frame or of
\* event::read; the terminal is released.
C15_Witness ==
    /\ pc = "done"
    /\ exit = "error"
    /\ bg # "idle"
    /\ last_key = "none"
    /\ ~raw

\* ---------------------------------------------------------------------------
\* C16.  A Left step with an empty path_stack leaves both stacks and the tree
\* unchanged; any other Left step removes exactly the last entry of each
\* stack and leaves the tree unchanged, and the index highlighted afterwards
\* is the index, among the children of the node then viewed, of the node
\* just left.
C16_MoveOut ==
    [][ pc = "read" /\ last_key' = "Left" =>
          /\ file_tree' = file_tree
          /\ IF path_stack = <<>>
             THEN /\ path_stack' = path_stack
                  /\ selection_stack' = selection_stack
             ELSE /\ path_stack' = SubSeq(path_stack, 1, Len(path_stack) - 1)
                  /\ selection_stack' =
                        SubSeq(selection_stack, 1, Len(selection_stack) - 1)
                  /\ Last(selection_stack') = Last(path_stack)
                  /\ Viewed'.children[Last(selection_stack') + 1] = Viewed
      ]_vars

\* Left has led from a node two or more levels down back to its parent, which
\* is not the first entry of the node now viewed.
C16_Witness ==
    /\ pc = "poll"
    /\ last_key = "Left"
    /\ Len(path_stack) >= 1
    /\ Len(selection_stack) = Len(path_stack) + 1
    /\ Last(selection_stack) >= 1

\* ---------------------------------------------------------------------------
\* C17.  No input sequence leads to an index out of bounds: in every state in
\* which the stacks exist, every entry of path_stack is less than the number
\* of children of the node it indexes during the resolution from the root,
\* and the top of selection_stack is less than the number of children of the
\* viewed node whenever that number is not zero, also after a Right step
\* whose enumeration gave another number of entries than the one before; no
\* session ends in a panic.
C17_InBounds ==
    /\ exit # "panic"
    /\ Built =>
          /\ PathInBounds(file_tree, path_stack)
          /\ selection_stack # <<>>
          /\ Viewed.children # <<>> =>
                Last(selection_stack) < Len(Viewed.children)

\* Right has entered the directory 2 after its second entry, present at
\* startup, was removed: the enumeration gave one entry where the preload
\* had found two.
C17_Witness ==
    /\ pc = "poll"
    /\ last_key = "Right"
    /\ fs_changes = 1
    /\ fs[R(<<2, 2>>)] = "none"
    /\ Viewed.path = R(<<2>>)
    /\ Len(Viewed.children) = 1
    /\ Last(selection_stack) = 0

\* ---------------------------------------------------------------------------
\* C18.  Once the merge has set the status of the node at a path (a color
\* other than White is set by nothing else), the node at that path keeps this
\* status in every later step, whatever the navigation.
C18_StatusKept ==
    [][ merges >= 1 =>
          \A p \in TreePaths(file_tree) \cap TreePaths(file_tree') :
              NodeAt(file_tree, p).color # "White"
                  => NodeAt(file_tree', p).color = NodeAt(file_tree, p).color
      ]_vars

\* ---------------------------------------------------------------------------
\* The nodes that a layout of node in area gives a rectangle: those that
\* lose a mark put on every rectangle beforehand (no layout produces the
\* mark, its numbers are no u16).
Mark == Rect(U16, U16, U16, U16)

RECURSIVE Marked(_)
Marked(node) ==
    [node EXCEPT !.rect = Mark,
                 !.children = [i \in 1..Len(node.children) |->
                                  Marked(node.children[i])]]

AssignedPaths(node, area) ==
    { n.path : n \in { m \in Nodes(layout_directory(Marked(node), area)) :
                          m.rect # Mark } }

\* The trees old and new have the same nodes, with the same rectangles but
\* for the nodes of the paths in assigned.
RECURSIVE SameRectsExcept(_, _, _)
SameRectsExcept(old, new, assigned) ==
    /\ new.path = old.path
    /\ old.path \notin assigned => new.rect = old.rect
    /\ Len(new.children) = Len(old.children)
    /\ \A i \in 1..Len(old.children) :
          SameRectsExcept(old.children[i], new.children[i], assigned)

\* C19.  A frame assigns rectangles to exactly the nodes at most 3 levels
\* below the viewed node (the viewed node included) and leaves the rectangle
\* of every other node unchanged; it draws exactly these nodes, so every node
\* drawn in a frame got its rectangle from the layout of that frame.
C19_FrameDepth ==
    [][ pc = "draw" /\ pc' = "read" =>
          LET assigned == AssignedPaths(Viewed, size)
          IN /\ assigned = { p \in TreePaths(Viewed) :
                                Len(p) <= Len(Viewed.path) + 3 }
             /\ SameRectsExcept(file_tree, file_tree', assigned)
             /\ draw_current_view(Viewed') \subseteq assigned
             /\ draw_current_view(Viewed') = assigned
      ]_vars

\* A frame is done for a viewed node that has a node four levels below it,
\* which still carries the rectangle of an earlier frame and is not drawn.
C19_Witness ==
    /\ pc = "read"
    /\ \E n \in Nodes(Viewed) :
          /\ Len(n.path) = Len(Viewed.path) + 4
          /\ n.rect # Rect(0, 0, 0, 0)
          /\ n.path \notin draw_current_view(Viewed)

\* ---------------------------------------------------------------------------
\* C20.  While main keeps iterating, a map that the status task has sent for
\* a found repository is eventually merged into the tree, unless the session
\* ends first; and main never waits for the status task: every poll gives
\* way to the frame, and every frame to the reading of the next input,
\* whether or not a map has arrived or ever arrives.
C20_EventuallyMerged ==
    /\ (sends = 1 /\ repo.found) ~> (merges = 1 \/ pc = "done")
    /\ (pc = "poll") ~> (pc = "draw")
    /\ (pc = "draw") ~> (pc \in {"read", "done"})

\* The map arrived after the user had moved into a directory, and the poll
\* of the next iteration has merged it.
C20_Witness ==
    /\ pc = "draw"
    /\ received # <<>>
    /\ merges = 1
    /\ Len(path_stack) >= 1
    /\ last_key = "none"

====
